---------------------------- MODULE Spec2Model ----------------------------
(***************************************************************************)
(* Model of passgen (src/passgen/app.py): the per-IP sliding-window rate   *)
(* limiter check_rate_limit, the password generator generate_password and  *)
(* the handler of /api/generate.                                           *)
(*                                                                         *)
(* Time.  time.time() returns a float; the model measures it in ticks,     *)
(* TicksPerSecond ticks to the second, so that sub-second instants exist   *)
(* and int() (truncation) differs from ceil() and from the identity.       *)
(*                                                                         *)
(* Settings.  RATE_LIMIT_WINDOW, PUBLIC_RATE_LIMIT and TRUSTED_RATE_LIMIT  *)
(* are module globals read at each call.  They are held in the variable    *)
(* settings, which no action changes.  SpecDeployed starts with the values *)
(* of the source (60, 60, 300); the other specifications start with a      *)
(* reduced setting (SmallWindow, SmallPublic, SmallTrusted) so that the    *)
(* clock can cross several windows and every bucket can fill up within the *)
(* bounds.  The code uses the settings only in comparisons and one         *)
(* subtraction.                                                            *)
(***************************************************************************)
EXTENDS Integers, Sequences, FiniteSets

VARIABLES
    clock,          \* the value time.time() returns, in ticks
    settings,       \* the rate limiting settings (app.py 38-40)
    rate_buckets,   \* dict ip -> deque, as ip -> index into deques
    deques,         \* the deque objects ever created, each a sequence of timestamps
    lastCall,       \* arguments and return value of the check_rate_limit call that has just returned
    admitted,       \* history: per ip, the admitted timestamps not older than the window
    rejection,      \* history: per ip, the rejection the ip is still waiting out, if any
    threads,        \* per thread: position in check_rate_limit and its locals
    gen,            \* generate_password: position and locals
    stats,          \* the dict stats (app.py 55-59)
    response        \* what /api/generate has just answered

vars == <<clock, settings, rate_buckets, deques, lastCall, admitted, rejection, threads, gen,
          stats, response>>

----------------------------------------------------------------------------
(* Bounds of the model *)

TicksPerSecond == 2
MaxClock == 5
SmallWindow == 1
SmallPublic == 1
SmallTrusted == 2
MaxCalls == 2
MaxThreadClock == 3
AlphabetSize == 2
MaxLength == 3
MaxValidLength == 8
MaxApiClock == 3
MaxRequests == 2

(* Program constants *)

RATE_LIMIT_WINDOW == 60
PUBLIC_RATE_LIMIT == 60
TRUSTED_RATE_LIMIT == 300
MIN_LENGTH == 8
MAX_LENGTH == 128
DEFAULT_LENGTH == 16
DEFAULT_COUNT == 1
MIN_COUNT == 1
MAX_COUNT == 100
API_KEY == "CHANGE_ME_API_KEY"

(* Client identities: the empty string is an identity like any other *)
IPs == {"", "10.0.0.7"}

(* the identity of a request whose remote address is not known *)
Unknown == "unknown"

(* Python's None and a present value *)
None == << >>
Some(v) == <<v>>

DeployedSettings ==
    [window |-> RATE_LIMIT_WINDOW, public |-> PUBLIC_RATE_LIMIT, trusted |-> TRUSTED_RATE_LIMIT]

SmallSettings ==
    [window |-> SmallWindow, public |-> SmallPublic, trusted |-> SmallTrusted]

(* RATE_LIMIT_WINDOW in ticks *)
WindowTicks == settings.window * TicksPerSecond

----------------------------------------------------------------------------
(* check_rate_limit, its pieces *)

(* Python int(): truncation toward zero of num/den, den > 0 *)
IntTrunc(num, den) ==
    IF num >= 0 THEN num \div den ELSE -((-num) \div den)

(* a slip: the tier flag is ignored, every caller gets the public limit *)
LimitIgnoringTier(is_trusted) ==
    settings.public

(* limit = TRUSTED_RATE_LIMIT if is_trusted else PUBLIC_RATE_LIMIT *)
Limit(is_trusted) ==
    IF is_trusted THEN settings.trusted ELSE settings.public

(* a slip: >= for >, an entry exactly one window old is dropped *)
ExpiredAtBoundary(now, ts) ==
    now - ts >= WindowTicks

(* a slip: an entry is kept for two windows *)
ExpiredLate(now, ts) ==
    now - ts > 2 * WindowTicks

(* now - bucket[0] > RATE_LIMIT_WINDOW *)
Expired(now, ts) ==
    now - ts > WindowTicks

(* a slip: if for while, at most one expired entry is dropped *)
PruneOnce(bucket, now) ==
    IF bucket # << >> /\ Expired(now, Head(bucket))
    THEN Tail(bucket)
    ELSE bucket

(* while bucket and now - bucket[0] > RATE_LIMIT_WINDOW: bucket.popleft() *)
RECURSIVE Prune(_, _)
Prune(bucket, now) ==
    IF bucket # << >> /\ Expired(now, Head(bucket))
    THEN Prune(Tail(bucket), now)
    ELSE bucket

(* retry_after = int(RATE_LIMIT_WINDOW - (now - bucket[0])) *)
RetryAfter(now, oldest) ==
    IntTrunc(WindowTicks - (now - oldest), TicksPerSecond)

(* the deque of ip, or the empty sequence when ip has no bucket *)
Bucket(ip) ==
    IF ip \in DOMAIN rate_buckets THEN deques[rate_buckets[ip]] ELSE << >>

NoCall ==
    [done |-> FALSE, ip |-> "", is_trusted |-> FALSE, now |-> 0, fresh |-> FALSE,
     allowed |-> TRUE, retry_after |-> None, raised |-> FALSE]

NoRejection == << >>

(* the history of admitted timestamps, kept to those not older than the window at time t *)
InWindow(hist, t) ==
    SelectSeq(hist, LAMBDA ts : t - ts <= WindowTicks)


----------------------------------------------------------------------------
(* Sequential calls: one action is one whole call of check_rate_limit *)

Threads == {"t1", "t2"}

(* a thread outside check_rate_limit that has made n calls *)
Idle(n) ==
    [pc |-> "idle", calls |-> n, ip |-> "", is_trusted |-> FALSE, now |-> 0, limit |-> 0,
     bucket |-> 0]

(* generate_password not yet called; letters is the number of letters the   *)
(* alphabets of string are cut to                                            *)
IdleGen ==
    [pc |-> "idle", letters |-> AlphabetSize,
     length |-> 0, upper |-> FALSE, nums |-> FALSE, special |-> FALSE,
     chars |-> << >>, required_groups |-> << >>, password_chars |-> << >>, swaps |-> 0,
     result |-> None]

NoStats ==
    [total_requests |-> 0, total_passwords_generated |-> 0, last_request_ts |-> None]

(* no request answered; count is the handler's local count before clamping, *)
(* None when the handler returned before assigning it; passwords is the      *)
(* number of strings in the list "passwords"                                 *)
NoResponse ==
    [status |-> 0, error |-> "", retry_after |-> None, count |-> None, passwords |-> 0]

InitAll(s, g) ==
    /\ clock = 0
    /\ settings = s
    /\ rate_buckets = << >>
    /\ deques = << >>
    /\ lastCall = NoCall
    /\ admitted = [ip \in IPs \cup {Unknown} |-> << >>]
    /\ rejection = [ip \in IPs \cup {Unknown} |-> NoRejection]
    /\ threads = [t \in Threads |-> Idle(0)]
    /\ gen = g
    /\ stats = NoStats
    /\ response = NoResponse

InitWith(s) == InitAll(s, IdleGen)

Init == InitWith(SmallSettings)

(* a slip: one bucket for all clients *)
BucketKeyShared(ip) ==
    ""

(* the key under which rate_buckets holds the deque of ip: ip itself *)
BucketKey(ip) ==
    ip

(* a slip: > for >= in the check, one request too many is let through *)
CheckResultOffByOne(before, is_trusted, now) ==
    LET bucket == Prune(before, now)
    IN  IF Len(bucket) > Limit(is_trusted)
        THEN [allowed |-> FALSE, retry_after |-> Some(RetryAfter(now, Head(bucket))),
              raised |-> FALSE, bucket |-> bucket]
        ELSE [allowed |-> TRUE, retry_after |-> None, raised |-> FALSE,
              bucket |-> Append(bucket, now)]

(* a slip: bucket[0] is read before the length is checked *)
CheckResultPeekFirst(before, is_trusted, now) ==
    LET bucket == Prune(before, now)
    IN  IF bucket = << >>
        THEN [allowed |-> FALSE, retry_after |-> None, raised |-> TRUE, bucket |-> bucket]
        ELSE IF Len(bucket) >= Limit(is_trusted)
        THEN [allowed |-> FALSE, retry_after |-> Some(RetryAfter(now, Head(bucket))),
              raised |-> FALSE, bucket |-> bucket]
        ELSE [allowed |-> TRUE, retry_after |-> None, raised |-> FALSE,
              bucket |-> Append(bucket, now)]

(* a slip: the timestamp is appended before the check, rejected calls too *)
CheckResultRecordRejected(before, is_trusted, now) ==
    LET bucket == Prune(before, now)
    IN  IF Len(bucket) >= Limit(is_trusted)
        THEN IF bucket = << >>
             THEN [allowed |-> FALSE, retry_after |-> None, raised |-> TRUE,
                   bucket |-> bucket]
             ELSE [allowed |-> FALSE, retry_after |-> Some(RetryAfter(now, Head(bucket))),
                   raised |-> FALSE, bucket |-> Append(bucket, now)]
        ELSE [allowed |-> TRUE, retry_after |-> None, raised |-> FALSE,
              bucket |-> Append(bucket, now)]

(* lines 96-107: what one call returns and the deque it leaves, from the deque *)
(* it finds.  bucket[0] of an empty deque raises IndexError.                   *)
CheckResult(before, is_trusted, now) ==
    LET bucket == Prune(before, now)
    IN  IF Len(bucket) >= Limit(is_trusted)
        THEN IF bucket = << >>
             THEN [allowed |-> FALSE, retry_after |-> None, raised |-> TRUE,
                   bucket |-> bucket]
             ELSE [allowed |-> FALSE, retry_after |-> Some(RetryAfter(now, Head(bucket))),
                   raised |-> FALSE, bucket |-> bucket]
        ELSE [allowed |-> TRUE, retry_after |-> None, raised |-> FALSE,
              bucket |-> Append(bucket, now)]

check_rate_limit(ip, is_trusted) ==
    LET now == clock
        key == BucketKey(ip)
        known == key \in DOMAIN rate_buckets
        ref == IF known THEN rate_buckets[key] ELSE Len(deques) + 1
        r == CheckResult(IF known THEN deques[ref] ELSE << >>, is_trusted, now)
    IN  /\ rate_buckets' = IF known THEN rate_buckets
                           ELSE [k \in DOMAIN rate_buckets \cup {key} |->
                                    IF k = key THEN ref ELSE rate_buckets[k]]
        /\ deques' = IF known THEN [deques EXCEPT ![ref] = r.bucket]
                     ELSE Append(deques, r.bucket)
        /\ lastCall' = [done |-> TRUE, ip |-> ip, is_trusted |-> is_trusted, now |-> now,
                        fresh |-> ~known,
                        allowed |-> r.allowed, retry_after |-> r.retry_after,
                        raised |-> r.raised]
        /\ admitted' = [admitted EXCEPT ![ip] = IF r.allowed THEN Append(@, now) ELSE @]
        /\ rejection' = [rejection EXCEPT ![ip] =
                            IF r.retry_after = None THEN NoRejection
                            ELSE <<[at |-> now, retry_after |-> r.retry_after[1],
                                    is_trusted |-> is_trusted]>>]
        /\ UNCHANGED <<clock, settings, threads, gen>>

(* a rejection still being waited out at time t: the instant it names has not passed *)
StillWaiting(rej, t) ==
    SelectSeq(rej, LAMBDA r : r.at + r.retry_after * TicksPerSecond >= t)

(* time passes: the clock never goes back.  The histories forget what can no *)
(* longer matter, and the return value of the last call and the response to  *)
(* the last request are no longer in hand                                    *)
Tick ==
    /\ clock < MaxClock
    /\ clock' = clock + 1
    /\ admitted' = [ip \in DOMAIN admitted |-> InWindow(admitted[ip], clock + 1)]
    /\ rejection' = [ip \in DOMAIN rejection |-> StillWaiting(rejection[ip], clock + 1)]
    /\ lastCall' = NoCall
    /\ response' = NoResponse
    /\ UNCHANGED <<settings, rate_buckets, deques, threads, gen, stats>>

Next ==
    \/ \E ip \in IPs, is_trusted \in BOOLEAN :
          check_rate_limit(ip, is_trusted) /\ UNCHANGED <<stats, response>>
    \/ Tick

Spec == Init /\ [][Next]_vars

(* The settings of the source, all calls inside one instant: one client with *)
(* the API key, every other client without *)
TrustedClient == "10.0.0.7"

InitDeployed == InitWith(DeployedSettings)

NextDeployed ==
    \E ip \in IPs :
        check_rate_limit(ip, ip = TrustedClient) /\ UNCHANGED <<stats, response>>

SpecDeployed == InitDeployed /\ [][NextDeployed]_vars

----------------------------------------------------------------------------
(* Concurrent calls.  The code takes no lock; under a threaded server two    *)
(* calls interleave between any two operations on the shared dict, a deque   *)
(* or the clock.  One action is one such operation of one thread.            *)

(* thread t returns: its locals go, the return value is in hand *)
Return(t, allowed, retry_after, raised) ==
    /\ threads' = [threads EXCEPT ![t] = Idle(threads[t].calls)]
    /\ lastCall' = [done |-> TRUE, ip |-> threads[t].ip,
                    is_trusted |-> threads[t].is_trusted, now |-> threads[t].now,
                    fresh |-> FALSE, allowed |-> allowed,
                    retry_after |-> retry_after, raised |-> raised]

(* lines 88-89: the call starts; now = time.time(), limit = ... *)
T_Start(t, ip, is_trusted) ==
    /\ threads[t].pc = "idle"
    /\ threads[t].calls < MaxCalls
    /\ threads' = [threads EXCEPT ![t] =
                      [pc |-> "l91", calls |-> threads[t].calls + 1, ip |-> ip, is_trusted |-> is_trusted, now |-> clock,
                       limit |-> Limit(is_trusted), bucket |-> 0]]
    /\ UNCHANGED <<clock, settings, rate_buckets, deques, lastCall, admitted, rejection, gen, stats, response>>

(* line 91: if ip not in rate_buckets *)
T_Lookup(t) ==
    /\ threads[t].pc = "l91"
    /\ threads' = [threads EXCEPT ![t].pc =
                      IF BucketKey(threads[t].ip) \in DOMAIN rate_buckets THEN "l94" ELSE "l92"]
    /\ UNCHANGED <<clock, settings, rate_buckets, deques, lastCall, admitted, rejection, gen, stats, response>>

(* line 92: rate_buckets[ip] = deque(), whatever the dict holds by now *)
T_Install(t) ==
    /\ threads[t].pc = "l92"
    /\ LET key == BucketKey(threads[t].ip)
       IN  rate_buckets' = [k \in DOMAIN rate_buckets \cup {key} |->
                               IF k = key THEN Len(deques) + 1 ELSE rate_buckets[k]]
    /\ deques' = Append(deques, << >>)
    /\ threads' = [threads EXCEPT ![t].pc = "l94"]
    /\ UNCHANGED <<clock, settings, lastCall, admitted, rejection, gen, stats, response>>

(* line 94: bucket = rate_buckets[ip] *)
T_Bind(t) ==
    /\ threads[t].pc = "l94"
    /\ threads' = [threads EXCEPT ![t].bucket = rate_buckets[BucketKey(threads[t].ip)],
                                  ![t].pc = "l97"]
    /\ UNCHANGED <<clock, settings, rate_buckets, deques, lastCall, admitted, rejection, gen, stats, response>>

(* line 97, left operand: while bucket *)
T_WhileNonEmpty(t) ==
    /\ threads[t].pc = "l97"
    /\ threads' = [threads EXCEPT ![t].pc =
                      IF deques[threads[t].bucket] # << >> THEN "l97b" ELSE "l101"]
    /\ UNCHANGED <<clock, settings, rate_buckets, deques, lastCall, admitted, rejection, gen, stats, response>>

(* line 97, right operand: now - bucket[0] > RATE_LIMIT_WINDOW; IndexError on an empty deque *)
T_WhileExpired(t) ==
    /\ threads[t].pc = "l97b"
    /\ LET bucket == deques[threads[t].bucket]
       IN  IF bucket = << >>
           THEN Return(t, FALSE, None, TRUE)
           ELSE /\ threads' = [threads EXCEPT ![t].pc =
                                  IF Expired(threads[t].now, Head(bucket)) THEN "l98" ELSE "l101"]
                /\ UNCHANGED lastCall
    /\ UNCHANGED <<clock, settings, rate_buckets, deques, admitted, rejection, gen, stats, response>>

(* line 98: bucket.popleft(); IndexError on an empty deque *)
T_PopLeft(t) ==
    /\ threads[t].pc = "l98"
    /\ LET b == threads[t].bucket
       IN  IF deques[b] = << >>
           THEN /\ Return(t, FALSE, None, TRUE)
                /\ UNCHANGED deques
           ELSE /\ deques' = [deques EXCEPT ![b] = Tail(@)]
                /\ threads' = [threads EXCEPT ![t].pc = "l97"]
                /\ UNCHANGED lastCall
    /\ UNCHANGED <<clock, settings, rate_buckets, admitted, rejection, gen, stats, response>>

(* line 101: if len(bucket) >= limit *)
T_Check(t) ==
    /\ threads[t].pc = "l101"
    /\ threads' = [threads EXCEPT ![t].pc =
                      IF Len(deques[threads[t].bucket]) >= threads[t].limit THEN "l102" ELSE "l106"]
    /\ UNCHANGED <<clock, settings, rate_buckets, deques, lastCall, admitted, rejection, gen, stats, response>>

(* lines 102-103: retry_after = int(...bucket[0]...); return False, retry_after *)
T_Reject(t) ==
    /\ threads[t].pc = "l102"
    /\ LET bucket == deques[threads[t].bucket]
       IN  IF bucket = << >>
           THEN Return(t, FALSE, None, TRUE)
           ELSE Return(t, FALSE, Some(RetryAfter(threads[t].now, Head(bucket))), FALSE)
    /\ UNCHANGED <<clock, settings, rate_buckets, deques, admitted, rejection, gen, stats, response>>

(* lines 106-107: bucket.append(now); return True, None *)
T_Admit(t) ==
    /\ threads[t].pc = "l106"
    /\ deques' = [deques EXCEPT ![threads[t].bucket] = Append(@, threads[t].now)]
    /\ admitted' = [admitted EXCEPT ![threads[t].ip] = Append(@, threads[t].now)]
    /\ Return(t, TRUE, None, FALSE)
    /\ UNCHANGED <<clock, settings, rate_buckets, rejection, gen, stats, response>>

(* time passes between two operations of the threads *)
TickThreads ==
    /\ clock < MaxThreadClock
    /\ Tick

NextThreads ==
    \/ \E t \in Threads, ip \in IPs, is_trusted \in BOOLEAN : T_Start(t, ip, is_trusted)
    \/ \E t \in Threads :
          \/ T_Lookup(t)
          \/ T_Install(t)
          \/ T_Bind(t)
          \/ T_WhileNonEmpty(t)
          \/ T_WhileExpired(t)
          \/ T_PopLeft(t)
          \/ T_Check(t)
          \/ T_Reject(t)
          \/ T_Admit(t)
    \/ TickThreads

SpecThreads == Init /\ [][NextThreads]_vars

----------------------------------------------------------------------------
(* generate_password.  A character is a pair <<class, k>>: the k-th letter   *)
(* of its class; the alphabets of string are cut to gen.letters letters      *)
(* each and are disjoint.  A string is the sequence of its characters.       *)
(* random.choice and random.shuffle are nondeterministic choices.            *)

ascii_lowercase == [k \in 1..gen.letters |-> <<"lower", k>>]
ascii_uppercase == [k \in 1..gen.letters |-> <<"upper", k>>]
digits == [k \in 1..gen.letters |-> <<"digit", k>>]
punctuation == [k \in 1..gen.letters |-> <<"punct", k>>]

(* the lengths a call is tried with; the function itself accepts any integer *)
Lengths == -1..MaxLength

Range(seq) == {seq[i] : i \in DOMAIN seq}

(* the orders random.shuffle can leave n items in *)
ShuffleOrders(n) ==
    {p \in [1..n -> 1..n] : \A i, j \in 1..n : p[i] = p[j] => i = j}

(* a slip: the base set is not the lowercase letters *)
BaseCharsDigits ==
    digits

(* a slip: the base set is every printable class *)
BaseCharsAll ==
    ascii_lowercase \o ascii_uppercase \o digits \o punctuation

(* line 121: chars = string.ascii_lowercase *)
BaseChars ==
    ascii_lowercase

(* a slip: the guaranteed character is drawn from the whole set *)
RequiredChoiceFromChars(group, chars) ==
    Range(chars)

(* line 145: what random.choice(group) can return *)
RequiredChoice(group, chars) ==
    Range(group)

(* a slip: the required characters are taken off the length twice *)
FillStopShort(start, length) ==
    length - start

(* line 148: range(len(password_chars), length) ends at length, where        *)
(* start = len(password_chars) when the loop is entered                      *)
FillStop(start, length) ==
    length

genRest == <<clock, settings, rate_buckets, deques, lastCall, admitted, rejection, threads,
            stats, response>>

(* lines 120-138: the call starts; chars and required_groups are built *)
G_Call(length, upper, nums, special) ==
    /\ gen.pc \in {"idle", "done", "raised"}
    /\ LET chars == BaseChars
                    \o (IF upper THEN ascii_uppercase ELSE << >>)
                    \o (IF nums THEN digits ELSE << >>)
                    \o (IF special THEN punctuation ELSE << >>)
           required_groups == (IF upper THEN <<ascii_uppercase>> ELSE << >>)
                              \o (IF nums THEN <<digits>> ELSE << >>)
                              \o (IF special THEN <<punctuation>> ELSE << >>)
       IN  gen' = [pc |-> IF chars = << >> THEN "raised" ELSE "l144",
                   letters |-> gen.letters,
                   length |-> length, upper |-> upper, nums |-> nums, special |-> special,
                   chars |-> chars, required_groups |-> required_groups,
                   password_chars |-> << >>, swaps |-> 0, result |-> None]
    /\ UNCHANGED genRest

(* lines 144-145: for group in required_groups: password_chars.append(random.choice(group)) *)
G_Require ==
    /\ gen.pc = "l144"
    /\ IF Len(gen.password_chars) < Len(gen.required_groups)
       THEN \E c \in RequiredChoice(gen.required_groups[Len(gen.password_chars) + 1], gen.chars) :
                gen' = [gen EXCEPT !.password_chars = Append(@, c)]
       ELSE gen' = [gen EXCEPT !.pc = "l148"]
    /\ UNCHANGED genRest

(* lines 148-149: for _ in range(len(password_chars), length): append(random.choice(chars)) *)
G_Fill ==
    /\ gen.pc = "l148"
    /\ IF Len(gen.password_chars) < FillStop(Len(gen.required_groups), gen.length)
       THEN \E c \in Range(gen.chars) :
                gen' = [gen EXCEPT !.password_chars = Append(@, c)]
       ELSE gen' = [gen EXCEPT !.pc = "l152"]
    /\ UNCHANGED genRest

(* line 152: random.shuffle(password_chars) *)
G_Shuffle ==
    /\ gen.pc = "l152"
    /\ \E p \in ShuffleOrders(Len(gen.password_chars)) :
          gen' = [gen EXCEPT !.password_chars = [i \in DOMAIN @ |-> @[p[i]]],
                             !.pc = "l154"]
    /\ UNCHANGED genRest

(* line 154: return "".join(password_chars) *)
G_Return ==
    /\ gen.pc = "l154"
    /\ gen' = [gen EXCEPT !.result = Some(gen.password_chars), !.pc = "done"]
    /\ UNCHANGED genRest

NextGen ==
    \/ \E length \in Lengths, upper, nums, special \in BOOLEAN :
          G_Call(length, upper, nums, special)
    \/ G_Require
    \/ G_Fill
    \/ G_Shuffle
    \/ G_Return

SpecGen == Init /\ [][NextGen]_vars

(* generate_password as /api/generate calls it: with a length that passed    *)
(* `8 <= length <= 128` (app.py 197), here up to MaxValidLength.  Each class *)
(* is cut to one letter and random.shuffle acts one exchange at a time.      *)
ValidLengths == {n \in MIN_LENGTH..MAX_LENGTH : n <= MaxValidLength}

(* x[i], x[j] = x[j], x[i] *)
Exchange(x, i, j) ==
    [x EXCEPT ![i] = x[j], ![j] = x[i]]

(* line 152, random.shuffle(password_chars) as the library runs it:          *)
(* for i from the last position down to the second, exchange x[i] with x[j], *)
(* j drawn from the positions up to i                                        *)
G_ShuffleStep ==
    /\ gen.pc = "l152"
    /\ LET i == Len(gen.password_chars) - gen.swaps
       IN  IF i >= 2
           THEN \E j \in 1..i :
                   gen' = [gen EXCEPT !.password_chars = Exchange(@, i, j),
                                      !.swaps = @ + 1]
           ELSE gen' = [gen EXCEPT !.pc = "l154"]
    /\ UNCHANGED genRest

InitValid == InitAll(SmallSettings, [IdleGen EXCEPT !.letters = 1])

NextValid ==
    \/ \E length \in ValidLengths, upper, nums, special \in BOOLEAN :
          G_Call(length, upper, nums, special)
    \/ G_Require
    \/ G_Fill
    \/ G_ShuffleStep
    \/ G_Return

SpecValid == InitValid /\ [][NextValid]_vars

----------------------------------------------------------------------------
(* /api/generate.  One action is one whole request.  A query parameter is    *)
(* absent, or a text that int() accepts, or a text on which int() raises     *)
(* ValueError.  The strings generate_password returns are those of SpecGen   *)
(* and SpecValid; the response keeps how many there are.                     *)

Absent == [given |-> FALSE, numeric |-> FALSE, value |-> 0]
Text(n) == [given |-> TRUE, numeric |-> TRUE, value |-> n]
Junk == [given |-> TRUE, numeric |-> FALSE, value |-> 0]

(* the requests tried: one client, whose address the server does not learn,  *)
(* with and without the API key                                              *)
RemoteAddrs == {""}
ProvidedKeys == {"", API_KEY}
LengthArgs == {Absent, Junk, Text(MIN_LENGTH - 1), Text(MIN_LENGTH), Text(MAX_LENGTH + 1)}
CountArgs == {Absent, Junk, Text(MIN_COUNT - 1), Text(MIN_COUNT + 1), Text(MAX_COUNT + 150)}
FlagArgs == {<<"", "", "">>, <<"True", "false", "0">>}

(* line 177: request.remote_addr or "unknown" *)
ClientIp(remote_addr) ==
    IF remote_addr = "" THEN Unknown ELSE remote_addr

(* int(request.args.get(name, default)): None stands for ValueError *)
ParseInt(arg, default) ==
    IF ~arg.given THEN Some(default)
    ELSE IF arg.numeric THEN Some(arg.value)
    ELSE None

(* request.args.get(name, "true").lower() == "true"; "" stands for absent *)
ParseFlag(text) ==
    LET given == IF text = "" THEN "true" ELSE text
        lower == IF given = "True" THEN "true" ELSE given
    IN  lower = "true"

(* a slip: the ceiling on count is missing *)
ClampCountNoCeiling(count) ==
    IF count < MIN_COUNT THEN MIN_COUNT ELSE count

(* lines 205-208: if count < 1: count = 1; if count > 100: count = 100 *)
ClampCount(count) ==
    LET raised == IF count < MIN_COUNT THEN MIN_COUNT ELSE count
    IN  IF raised > MAX_COUNT THEN MAX_COUNT ELSE raised

Failure(status, error, retry_after, count) ==
    [status |-> status, error |-> error, retry_after |-> retry_after,
     count |-> count, passwords |-> 0]

(* lines 191-234, a request the rate limiter let through *)
Validated(length_arg, count_arg, flags) ==
    LET length == ParseInt(length_arg, DEFAULT_LENGTH)
        count == ParseInt(count_arg, DEFAULT_COUNT)
        chars == BaseChars
                 \o (IF ParseFlag(flags[1]) THEN ascii_uppercase ELSE << >>)
                 \o (IF ParseFlag(flags[2]) THEN digits ELSE << >>)
                 \o (IF ParseFlag(flags[3]) THEN punctuation ELSE << >>)
    IN  IF length = None
        THEN Failure(400, "Invalid length", None, None)
        ELSE IF ~(MIN_LENGTH <= length[1] /\ length[1] <= MAX_LENGTH)
        THEN Failure(400, "Length must be between 8 and 128", None, None)
        ELSE IF count = None
        THEN Failure(400, "Invalid count", None, None)
        ELSE IF chars = << >>
        THEN Failure(400, "No character sets selected", None, count)
        ELSE [status |-> 200, error |-> "", retry_after |-> None,
              count |-> count, passwords |-> ClampCount(count[1])]

(* a slip: the parameters are validated before the outcome of the rate limit *)
(* check is looked at                                                        *)
AnswerValidatingFirst(allowed, retry_after, raised, length_arg, count_arg, flags) ==
    LET v == Validated(length_arg, count_arg, flags)
    IN  IF raised THEN Failure(500, "IndexError", None, None)
        ELSE IF v.status # 200 THEN v
        ELSE IF ~allowed THEN Failure(429, "Rate limit exceeded", retry_after, None)
        ELSE v

(* lines 183-234: the response, from what check_rate_limit returned and the  *)
(* query parameters                                                          *)
Answer(allowed, retry_after, raised, length_arg, count_arg, flags) ==
    IF raised THEN Failure(500, "IndexError", None, None)
    ELSE IF ~allowed THEN Failure(429, "Rate limit exceeded", retry_after, None)
    ELSE Validated(length_arg, count_arg, flags)

(* lines 175-234 *)
api_generate(remote_addr, provided_key, length_arg, count_arg, flags) ==
    LET client_ip == ClientIp(remote_addr)
        is_trusted == provided_key = API_KEY
    IN  /\ stats.total_requests < MaxRequests
        /\ check_rate_limit(client_ip, is_trusted)
        /\ response' = Answer(lastCall'.allowed, lastCall'.retry_after, lastCall'.raised,
                              length_arg, count_arg, flags)
        /\ stats' = IF response'.status = 200
                    THEN [total_requests |-> stats.total_requests + 1,
                          total_passwords_generated |->
                              stats.total_passwords_generated + response'.passwords,
                          last_request_ts |-> Some(clock)]
                    ELSE stats

TickApi ==
    /\ clock < MaxApiClock
    /\ Tick

NextApi ==
    \/ \E remote_addr \in RemoteAddrs, provided_key \in ProvidedKeys,
          length_arg \in LengthArgs, count_arg \in CountArgs, flags \in FlagArgs :
          api_generate(remote_addr, provided_key, length_arg, count_arg, flags)
    \/ TickApi

SpecApi == Init /\ [][NextApi]_vars

----------------------------------------------------------------------------
(* The claims about check_rate_limit under sequential calls *)

(* the ceiling the specification gives a tier *)
TierCeiling(is_trusted) ==
    IF is_trusted THEN settings.trusted ELSE settings.public

(* ceil(num/den), den > 0 *)
Ceil(num, den) ==
    -((-num) \div den)

(* how many admitted requests of ip, the new one included, are at most a window old at t *)
CountInWindow(ip, t) ==
    Len(InWindow(admitted[ip], t))

(* C1: whenever a call at tier T is admitted at time now, the admitted       *)
(* timestamps of its identity that lie within the last window, the new one   *)
(* included, number at most the ceiling of T.                                *)
C1_SlidingWindowCeiling ==
    (lastCall.done /\ lastCall.allowed) =>
        CountInWindow(lastCall.ip, lastCall.now) <= TierCeiling(lastCall.is_trusted)

(* C1 witness: beyond the first window, an admitted call brings its identity *)
(* exactly to the ceiling of its tier, with more than one request counted.   *)
C1_Witness ==
    /\ lastCall.done /\ lastCall.allowed /\ lastCall.is_trusted
    /\ lastCall.now > WindowTicks
    /\ CountInWindow(lastCall.ip, lastCall.now) = settings.trusted
    /\ settings.trusted > 1

(* C3 as stated: the window is half-open, (now - window, now]: after a call  *)
(* no entry of the caller's bucket is a full window old or older.            *)
C3_HalfOpenWindow ==
    lastCall.done =>
        \A i \in DOMAIN Bucket(lastCall.ip) :
            lastCall.now - Bucket(lastCall.ip)[i] < WindowTicks

(* C3 amended: the window is closed, [now - window, now]: a call removes     *)
(* exactly the entries strictly older than the window, an entry exactly one  *)
(* window old stays and is counted against the limit, so the call is         *)
(* admitted exactly when fewer than limit entries are at most a window old.  *)
C3_ClosedWindow ==
    (lastCall.done /\ ~lastCall.raised) =>
        LET ip == lastCall.ip
            counted == CountInWindow(ip, lastCall.now) - (IF lastCall.allowed THEN 1 ELSE 0)
        IN  /\ Bucket(ip) = InWindow(admitted[ip], lastCall.now)
            /\ lastCall.allowed <=> counted < TierCeiling(lastCall.is_trusted)

(* C3 witness: a call finds a full bucket whose oldest entry is exactly one  *)
(* window old, and is rejected.                                              *)
C3_Witness ==
    /\ lastCall.done /\ ~lastCall.allowed
    /\ Len(Bucket(lastCall.ip)) = TierCeiling(lastCall.is_trusted)
    /\ lastCall.now - Head(Bucket(lastCall.ip)) = WindowTicks

(* C4: a call rejected at time now with retry_after r is followed, r seconds *)
(* later and with no call of the same identity in between, by an admitted    *)
(* call at the same tier.                                                    *)
C4_RetryAfterSuffices ==
    [][\A ip \in IPs :
          (/\ lastCall'.done /\ clock' = clock /\ lastCall'.ip = ip
           /\ rejection[ip] # NoRejection
           /\ rejection[ip][1].is_trusted = lastCall'.is_trusted
           /\ clock = rejection[ip][1].at + rejection[ip][1].retry_after * TicksPerSecond)
              => lastCall'.allowed]_vars

(* C5: a rejected call returns ceil(window - (now - oldest remaining)),      *)
(* between 0 and the window; an admitted call returns no retry-after.        *)
C5_RetryAfterIsCeil ==
    lastCall.done =>
        IF lastCall.allowed
        THEN lastCall.retry_after = None
        ELSE /\ lastCall.retry_after # None
             /\ lastCall.retry_after[1] =
                    Ceil(WindowTicks - (lastCall.now - Head(Bucket(lastCall.ip))), TicksPerSecond)
             /\ lastCall.retry_after[1] \in 0..settings.window

(* C6: a call for identity a leaves the bucket of every other identity as it *)
(* was, and its decision is the one the admitted requests of a alone give.   *)
C6_Isolation ==
    [][(lastCall'.done /\ clock' = clock) =>
          LET a == lastCall'.ip
          IN  /\ \A b \in IPs \ {a} :
                    /\ (b \in DOMAIN rate_buckets') <=> (b \in DOMAIN rate_buckets)
                    /\ Bucket(b)' = Bucket(b)
              /\ lastCall'.allowed <=>
                    CountInWindow(a, clock) < TierCeiling(lastCall'.is_trusted)]_vars

(* C6 witness: a call is admitted while another identity's bucket is full    *)
(* and that identity is waiting out a rejection.                             *)
C6_Witness ==
    /\ lastCall.done /\ lastCall.allowed
    /\ \E b \in IPs \ {lastCall.ip} :
          /\ Len(Bucket(b)) = settings.trusted
          /\ rejection[b] # NoRejection

(* C7: with the settings of the source and all calls inside one window, the  *)
(* client with the key is admitted 300 times and rejected from then on, a    *)
(* client without it is admitted 60 times and rejected from then on.         *)
C7_TierIndependence ==
    lastCall.done =>
        LET n == Len(admitted[lastCall.ip])
            ceiling == IF lastCall.is_trusted THEN TRUSTED_RATE_LIMIT ELSE PUBLIC_RATE_LIMIT
        IN  IF lastCall.allowed THEN n <= ceiling ELSE n = ceiling

(* C7 witness: the trusted client is rejected with 300 requests admitted     *)
(* while the public client is throttled with 60 admitted.                    *)
C7_Witness ==
    /\ lastCall.done /\ lastCall.ip = TrustedClient /\ ~lastCall.allowed
    /\ Len(admitted[TrustedClient]) = TRUSTED_RATE_LIMIT
    /\ \E b \in IPs \ {TrustedClient} :
          /\ Len(admitted[b]) = PUBLIC_RATE_LIMIT
          /\ rejection[b] # NoRejection

(* C8: no call raises; a call of an identity without a bucket is admitted    *)
(* and creates the bucket, holding only now, as for an identity whose bucket *)
(* is empty; every identity, the empty string too, has a deque of its own.   *)
C8_NeverRaises ==
    lastCall.done =>
        /\ ~lastCall.raised
        /\ lastCall.ip \in DOMAIN rate_buckets
        /\ lastCall.fresh => (lastCall.allowed /\ Bucket(lastCall.ip) = <<lastCall.now>>)
        /\ \A a, b \in DOMAIN rate_buckets : a # b => rate_buckets[a] # rate_buckets[b]

(* C8 witness: the first call of the empty-string identity is admitted while *)
(* another identity already has requests on record.                          *)
C8_Witness ==
    /\ lastCall.done /\ lastCall.ip = "" /\ lastCall.fresh /\ lastCall.allowed
    /\ \E b \in DOMAIN rate_buckets : b # "" /\ Len(Bucket(b)) >= 1
    /\ Bucket("") = <<lastCall.now>>

(* C16: a call is never rejected while fewer than limit of its identity's    *)
(* admitted requests are at most a window old; an identity none of whose     *)
(* admitted requests is that recent is admitted on its next call, which      *)
(* leaves its bucket holding now alone.                                      *)
C16_NoFalseRejection ==
    lastCall.done =>
        LET ip == lastCall.ip
            before == CountInWindow(ip, lastCall.now) - (IF lastCall.allowed THEN 1 ELSE 0)
        IN  /\ ~lastCall.allowed => before >= TierCeiling(lastCall.is_trusted)
            /\ before = 0 => (lastCall.allowed /\ Bucket(ip) = <<lastCall.now>>)

(* C16 witness: an identity that filled its window earlier calls again more  *)
(* than a window after its last admitted request and is admitted.            *)
C16_Witness ==
    /\ lastCall.done /\ lastCall.allowed /\ ~lastCall.fresh /\ ~lastCall.is_trusted
    /\ lastCall.now > WindowTicks
    /\ admitted[lastCall.ip] = <<lastCall.now>>
    /\ Bucket(lastCall.ip) = <<lastCall.now>>

(* C17: an admitted call appends exactly one entry, now, at the tail of its  *)
(* identity's sequence; a rejected call appends nothing; either changes the  *)
(* sequence otherwise only by removing expired entries from its front.       *)
C17_OnlyAdmittedRecorded ==
    [][\A ip \in IPs :
          (lastCall'.done /\ clock' = clock /\ lastCall'.ip = ip) =>
              \E k \in 0..Len(Bucket(ip)) :
                  /\ \A i \in 1..k : clock - Bucket(ip)[i] > WindowTicks
                  /\ Bucket(ip)' = SubSeq(Bucket(ip), k + 1, Len(Bucket(ip)))
                                       \o (IF lastCall'.allowed THEN <<clock>> ELSE << >>)]_vars

(* C17 witness: beyond the first window a call is rejected and its           *)
(* identity's sequence holds older entries only, none for this call.         *)
C17_Witness ==
    /\ lastCall.done /\ ~lastCall.allowed /\ ~lastCall.raised
    /\ lastCall.now > WindowTicks
    /\ Bucket(lastCall.ip) # << >>
    /\ \A i \in DOMAIN Bucket(lastCall.ip) : Bucket(lastCall.ip)[i] < lastCall.now

(* C18: under sequential calls and a non-decreasing clock every identity's   *)
(* sequence is sorted oldest first, and after a call every entry of the      *)
(* identity just checked is at most a window older than the call's now.      *)
C18_BucketInvariant ==
    /\ \A ip \in IPs : \A i, j \in DOMAIN Bucket(ip) :
          i < j => Bucket(ip)[i] <= Bucket(ip)[j]
    /\ lastCall.done =>
          \A i \in DOMAIN Bucket(lastCall.ip) :
              /\ Bucket(lastCall.ip)[i] <= lastCall.now
              /\ lastCall.now - Bucket(lastCall.ip)[i] <= WindowTicks

(* C18 witness: beyond the first window a call leaves two entries of         *)
(* different age, the older exactly one window old.                          *)
C18_Witness ==
    /\ lastCall.done /\ lastCall.now > WindowTicks
    /\ Len(Bucket(lastCall.ip)) = 2
    /\ Bucket(lastCall.ip)[1] < Bucket(lastCall.ip)[2]
    /\ lastCall.now - Bucket(lastCall.ip)[1] = WindowTicks

----------------------------------------------------------------------------
(* The claims about check_rate_limit under concurrent calls *)

(* C2: under any interleaving of concurrent calls, the admitted requests of  *)
(* an identity inside one window never number more than the ceiling of the   *)
(* tier of the call just admitted (no two calls both see count < limit       *)
(* before either appends).                                                   *)
C2_NoOverAdmission ==
    \A ip \in IPs :
        (lastCall.done /\ lastCall.ip = ip /\ lastCall.allowed) =>
            Len(InWindow(admitted[ip], clock)) <= TierCeiling(lastCall.is_trusted)

(* how many times ts occurs in seq *)
Occurrences(seq, ts) ==
    Cardinality({i \in DOMAIN seq : seq[i] = ts})

(* C20: under any interleaving of concurrent calls for one identity no call  *)
(* raises, and every admitted timestamp at most a window old is still in the *)
(* identity's sequence: the prune loop removes no entry that has not         *)
(* expired, and no entry is lost with a bucket that a second thread replaces *)
(* by a fresh one.                                                           *)
C20_ConcurrentCallsSafe ==
    /\ lastCall.done => ~lastCall.raised
    /\ \A ip \in IPs : \A ts \in 0..clock :
          Occurrences(InWindow(admitted[ip], clock), ts) <= Occurrences(Bucket(ip), ts)

----------------------------------------------------------------------------
(* The claims about generate_password *)

(* the returned string has a character of the alphabet *)
Contains(alphabet) ==
    \E i \in DOMAIN gen.result[1] : gen.result[1][i] \in Range(alphabet)

Returned ==
    gen.pc = "done" /\ gen.result # None

(* C9: for every length and every outcome of the draws, the returned string  *)
(* has an uppercase letter if upper, a digit if nums, a punctuation          *)
(* character if special.                                                     *)
C9_EnabledClassesPresent ==
    Returned =>
        /\ gen.upper => Contains(ascii_uppercase)
        /\ gen.nums => Contains(digits)
        /\ gen.special => Contains(punctuation)

(* C9 witness: all three classes asked for with a length too short to hold   *)
(* them and a lowercase letter; the string returned has all three.           *)
C9_Witness ==
    /\ Returned /\ gen.upper /\ gen.nums /\ gen.special
    /\ gen.length <= 3
    /\ Contains(ascii_uppercase) /\ Contains(digits) /\ Contains(punctuation)

(* C10 as stated: for every length >= 1, every flag combination and every    *)
(* outcome of the draws, the returned string has a lowercase letter.         *)
C10_LowercasePresent ==
    (Returned /\ gen.length >= 1) => Contains(ascii_lowercase)

(* C10 amended: lowercase letters are in the set every call draws from, and  *)
(* a call for length >= 1 with no flag enabled returns a string with a       *)
(* lowercase letter; with a flag enabled the string may have none.           *)
C10_LowercaseWhenNoFlag ==
    /\ gen.pc # "idle" => Range(ascii_lowercase) \subseteq Range(gen.chars)
    /\ (gen.pc \in {"done", "raised"} /\ gen.length >= 1
            /\ ~gen.upper /\ ~gen.nums /\ ~gen.special)
         => (Returned /\ Contains(ascii_lowercase))

(* C10 witness: a call with no flag and a length >= 1 has returned, its      *)
(* string as long as asked and with a lowercase letter.                      *)
C10_Witness ==
    /\ Returned /\ gen.length >= 1
    /\ ~gen.upper /\ ~gen.nums /\ ~gen.special
    /\ Len(gen.result[1]) = gen.length
    /\ Contains(ascii_lowercase)

(* the classes a call draws from: lowercase and one per enabled flag *)
ActiveClasses ==
    1 + Len(gen.required_groups)

(* C11: a call whose length is below the number of active classes fails and  *)
(* returns no string; a call whose length reaches it returns one (all three  *)
(* flags: length 4 succeeds, length 3 fails).                                *)
C11_InvalidLength ==
    gen.pc \in {"done", "raised"} =>
        IF gen.length < ActiveClasses THEN gen.pc = "raised" ELSE Returned

(* the characters a call with these flags may use *)
EnabledAlphabet(upper, nums, special) ==
    Range(ascii_lowercase)
        \cup (IF upper THEN Range(ascii_uppercase) ELSE {})
        \cup (IF nums THEN Range(digits) ELSE {})
        \cup (IF special THEN Range(punctuation) ELSE {})

(* C13: every character of the returned string is a lowercase letter or of   *)
(* a class whose flag is enabled; no character of a disabled class appears.  *)
C13_AlphabetClosure ==
    Returned =>
        Range(gen.result[1]) \subseteq EnabledAlphabet(gen.upper, gen.nums, gen.special)

(* C13 witness: a call with one flag enabled and two disabled returns a      *)
(* string as long as asked that has a lowercase letter and one of that class *)
C13_Witness ==
    /\ Returned /\ gen.upper /\ ~gen.nums /\ ~gen.special
    /\ gen.length >= 2 /\ Len(gen.result[1]) = gen.length
    /\ Contains(ascii_lowercase) /\ Contains(ascii_uppercase)

(* C12: for every length from 8 to 128, every flag combination and every     *)
(* outcome of the draws, the returned string has exactly length characters.  *)
C12_LengthExact ==
    (gen.pc \in {"done", "raised"} /\ gen.length \in MIN_LENGTH..MAX_LENGTH) =>
        (Returned /\ Len(gen.result[1]) = gen.length)

(* C12 witness: a call with all three flags and the least length accepted    *)
(* returns a string of that length with a character of all four classes.     *)
C12_Witness ==
    /\ Returned /\ gen.length = MIN_LENGTH
    /\ gen.upper /\ gen.nums /\ gen.special
    /\ Len(gen.result[1]) = MIN_LENGTH
    /\ Contains(ascii_lowercase) /\ Contains(ascii_uppercase)
    /\ Contains(digits) /\ Contains(punctuation)

----------------------------------------------------------------------------
(* The claims about /api/generate *)

(* C14: a successful request returns exactly min(max(count, 1), 100)         *)
(* passwords, count being the integer asked for; a count that is an integer  *)
(* is never a reason to reject, whatever its value (250 gives 100, 0 gives   *)
(* 1).                                                                       *)
C14_CountClamped ==
    /\ response.status = 200 =>
          /\ response.count # None
          /\ LET count == response.count[1]
             IN  response.passwords =
                    (IF count < 1 THEN 1 ELSE IF count > 100 THEN 100 ELSE count)
    /\ response.count # None => response.status = 200

(* C14 witness: a request for 250 passwords is answered with 100, and the    *)
(* statistics count them.                                                    *)
C14_Witness ==
    /\ response.status = 200
    /\ response.count = Some(250)
    /\ response.passwords = 100
    /\ stats.total_passwords_generated >= 100

(* C19: the rate limit check runs before the parameters are validated: a     *)
(* request not answered 429, one answered 400 for its length or count        *)
(* included, puts exactly one entry, now, in its client's sequence; a        *)
(* request answered 429 puts none, generates no password and leaves the      *)
(* statistics as they were.                                                  *)
C19_RateLimitFirst ==
    [][\A ip \in DOMAIN admitted :
          (response'.status # 0 /\ clock' = clock /\ lastCall'.ip = ip) =>
              \E k \in 0..Len(Bucket(ip)) :
                  LET kept == SubSeq(Bucket(ip), k + 1, Len(Bucket(ip)))
                  IN  IF response'.status = 429
                      THEN /\ Bucket(ip)' = kept
                           /\ response'.passwords = 0
                           /\ stats' = stats
                      ELSE Bucket(ip)' = Append(kept, clock)]_vars

(* C19 witness: a request answered 400 for its count has taken the last slot *)
(* of its client's window.                                                   *)
C19_Witness ==
    /\ response.status = 400 /\ response.error = "Invalid count"
    /\ lastCall.done /\ lastCall.allowed /\ ~lastCall.is_trusted
    /\ Len(Bucket(lastCall.ip)) = settings.public
    /\ Bucket(lastCall.ip)[Len(Bucket(lastCall.ip))] = lastCall.now
    /\ lastCall.now > 0

============================================================================
